---- MODULE Spec2Model ----
(***************************************************************************)
(* Movie catalog backend (Backend/server.js): the Express handlers that    *)
(* answer from the MySQL catalog table and fall back to the in-memory      *)
(* sample list `movies`, the shared connection handle, the seeding step    *)
(* initDatabase, and the route table in registration order.                *)
(*                                                                         *)
(* Conventions.  A rating is kept in tenths (4.8 is 48).  A movie record   *)
(* carries the fields the handlers read (id, title, genre, rating,         *)
(* description); year, duration and the two URLs are copied around         *)
(* untouched by every handler and are left out.  JavaScript `undefined`,   *)
(* SQL NULL and NaN are the sentinels Undefined/UndefinedNum, Null/NullNum *)
(* and NaN.  ORDER BY rating DESC is modelled as a stable sort over the    *)
(* rows in id order (ties in id order, NULL last).                         *)
(***************************************************************************)
EXTENDS Integers, Sequences, FiniteSets, TLC

VARIABLES
    movies,        \* the in-memory sample list (server.js `movies`)
    connection,    \* the shared handle (server.js `connection`): "none" | "open"
    storeUp,       \* whether the MySQL server is reachable right now
    tableExists,   \* whether the movies table has been created
    rows,          \* the rows of the movies table, in id order
    initDone,      \* whether the listen callback has run initDatabase
    response,      \* the response being sent, or NoRequest when none is
    init,          \* initDatabase at the grain of its awaits: where it stands
    tasks,         \* requests inside executeQuery, at the grain of its awaits
    sessions       \* connections this process has opened to the server

vars ==
    <<movies, connection, storeUp, tableExists, rows, initDone, response,
      init, tasks, sessions>>

\* the state only the await-grained steps change
awaits == <<init, tasks, sessions>>

(***************************************************************************)
(* Bounds of the model.                                                    *)
(***************************************************************************)
MaxCreated == 1
MaxLimit == 3
MaxOffset == 2
MaxTasks == 2
MaxSessions == 3
MaxRuns == 2

(***************************************************************************)
(* Sentinels for JavaScript / SQL special values.                          *)
(***************************************************************************)
Undefined == "<undefined>"
Null == "<null>"
UndefinedNum == -1
NullNum == -1
NaN == -2

(***************************************************************************)
(* Strings as JavaScript sees them: their UTF-16 code units.               *)
(***************************************************************************)
Chars ==
    ("Quantum Nexus" :> <<"Q","u","a","n","t","u","m"," ","N","e","x","u","s">>) @@
    ("A mind-bending journey through parallel dimensions" :> <<"A"," ","m","i","n","d","-","b","e","n","d","i","n","g"," ","j","o","u","r","n","e","y"," ","t","h","r","o","u","g","h"," ","p","a","r","a","l","l","e","l"," ","d","i","m","e","n","s","i","o","n","s">>) @@
    ("sci-fi" :> <<"s","c","i","-","f","i">>) @@
    ("Shadow Protocol" :> <<"S","h","a","d","o","w"," ","P","r","o","t","o","c","o","l">>) @@
    ("Elite agents face their greatest challenge" :> <<"E","l","i","t","e"," ","a","g","e","n","t","s"," ","f","a","c","e"," ","t","h","e","i","r"," ","g","r","e","a","t","e","s","t"," ","c","h","a","l","l","e","n","g","e">>) @@
    ("action" :> <<"a","c","t","i","o","n">>) @@
    ("The Last Symphony" :> <<"T","h","e"," ","L","a","s","t"," ","S","y","m","p","h","o","n","y">>) @@
    ("A musician's final masterpiece" :> <<"A"," ","m","u","s","i","c","i","a","n","'","s"," ","f","i","n","a","l"," ","m","a","s","t","e","r","p","i","e","c","e">>) @@
    ("drama" :> <<"d","r","a","m","a">>) @@
    ("Cosmic Comedy Club" :> <<"C","o","s","m","i","c"," ","C","o","m","e","d","y"," ","C","l","u","b">>) @@
    ("Laughs from across the galaxy" :> <<"L","a","u","g","h","s"," ","f","r","o","m"," ","a","c","r","o","s","s"," ","t","h","e"," ","g","a","l","a","x","y">>) @@
    ("comedy" :> <<"c","o","m","e","d","y">>) @@
    ("Digital Phantom" :> <<"D","i","g","i","t","a","l"," ","P","h","a","n","t","o","m">>) @@
    ("Reality and virtuality collide" :> <<"R","e","a","l","i","t","y"," ","a","n","d"," ","v","i","r","t","u","a","l","i","t","y"," ","c","o","l","l","i","d","e">>) @@
    ("thriller" :> <<"t","h","r","i","l","l","e","r">>) @@
    ("Neon Nights" :> <<"N","e","o","n"," ","N","i","g","h","t","s">>) @@
    ("Cyberpunk adventure in Neo-Tokyo" :> <<"C","y","b","e","r","p","u","n","k"," ","a","d","v","e","n","t","u","r","e"," ","i","n"," ","N","e","o","-","T","o","k","y","o">>) @@
    ("horror" :> <<"h","o","r","r","o","r">>) @@
    ("Galaxy Quest" :> <<"G","a","l","a","x","y"," ","Q","u","e","s","t">>) @@
    ("galaxy" :> <<"g","a","l","a","x","y">>) @@
    ("THE" :> <<"T","H","E">>) @@
    ("all" :> <<"a","l","l">>)

CharCode ==
    " " :> 32 @@ "'" :> 39 @@ "-" :> 45 @@ "A" :> 65 @@ "C" :> 67 @@ "D" :> 68 @@
    "E" :> 69 @@ "G" :> 71 @@ "H" :> 72 @@ "L" :> 76 @@ "N" :> 78 @@ "P" :> 80 @@
    "Q" :> 81 @@ "R" :> 82 @@ "S" :> 83 @@ "T" :> 84 @@ "a" :> 97 @@ "b" :> 98 @@
    "c" :> 99 @@ "d" :> 100 @@ "e" :> 101 @@ "f" :> 102 @@ "g" :> 103 @@ "h" :> 104 @@
    "i" :> 105 @@ "j" :> 106 @@ "k" :> 107 @@ "l" :> 108 @@ "m" :> 109 @@ "n" :> 110 @@
    "o" :> 111 @@ "p" :> 112 @@ "q" :> 113 @@ "r" :> 114 @@ "s" :> 115 @@ "t" :> 116 @@
    "u" :> 117 @@ "v" :> 118 @@ "w" :> 119 @@ "x" :> 120 @@ "y" :> 121

UpperToLower ==
    "A" :> "a" @@ "C" :> "c" @@ "D" :> "d" @@ "E" :> "e" @@ "G" :> "g" @@ "H" :> "h" @@
    "L" :> "l" @@ "N" :> "n" @@ "P" :> "p" @@ "Q" :> "q" @@ "R" :> "r" @@ "S" :> "s" @@
    "T" :> "t"

Min(a, b) == IF a <= b THEN a ELSE b

\* String.prototype.toLowerCase, on a sequence of characters
ToLowerCase(cs) ==
    [i \in 1..Len(cs) |->
        IF cs[i] \in DOMAIN UpperToLower THEN UpperToLower[cs[i]] ELSE cs[i]]

\* String.prototype.includes, on sequences of characters
Includes(hay, needle) ==
    \E k \in 0..(Len(hay) - Len(needle)) :
        \A i \in 1..Len(needle) : hay[k + i] = needle[i]

\* the default comparison of Array.prototype.sort: by UTF-16 code units
RECURSIVE CharsLess(_, _)
CharsLess(a, b) ==
    IF b = <<>> THEN FALSE
    ELSE IF a = <<>> THEN TRUE
    ELSE IF CharCode[Head(a)] # CharCode[Head(b)]
         THEN CharCode[Head(a)] < CharCode[Head(b)]
    ELSE CharsLess(Tail(a), Tail(b))

StrLess(s, t) == CharsLess(Chars[s], Chars[t])

(***************************************************************************)
(* The sample list, server.js lines 62-129.                                *)
(***************************************************************************)
SeedMovies ==
    << [id |-> 1, title |-> "Quantum Nexus", genre |-> "sci-fi", rating |-> 48,
        description |-> "A mind-bending journey through parallel dimensions"],
       [id |-> 2, title |-> "Shadow Protocol", genre |-> "action", rating |-> 45,
        description |-> "Elite agents face their greatest challenge"],
       [id |-> 3, title |-> "The Last Symphony", genre |-> "drama", rating |-> 47,
        description |-> "A musician's final masterpiece"],
       [id |-> 4, title |-> "Cosmic Comedy Club", genre |-> "comedy", rating |-> 42,
        description |-> "Laughs from across the galaxy"],
       [id |-> 5, title |-> "Digital Phantom", genre |-> "thriller", rating |-> 46,
        description |-> "Reality and virtuality collide"],
       [id |-> 6, title |-> "Neon Nights", genre |-> "action", rating |-> 44,
        description |-> "Cyberpunk adventure in Neo-Tokyo"] >>

(***************************************************************************)
(* Request inputs.                                                         *)
(***************************************************************************)
GenreParams == {Undefined, "all", "action", "sci-fi"}
SearchParams == {Undefined, "galaxy", "THE"}
LimitParams == {UndefinedNum} \cup (0..MaxLimit)
OffsetParams == {UndefinedNum} \cup (0..MaxOffset)
IdParams == (0..(Len(SeedMovies) + MaxCreated + 1)) \cup {NaN}
TitleParams == {Undefined, "", "Galaxy Quest"}
NewGenreParams == {Undefined, "", "action", "horror"}
RatingParams == {UndefinedNum, 0, 49}

\* JavaScript truthiness of a string and of a number
Truthy(s) == s # Undefined /\ s # ""
TruthyNum(n) == n # UndefinedNum /\ n # 0 /\ n # NaN

(***************************************************************************)
(* Array helpers.                                                          *)
(***************************************************************************)
\* x placed behind every element rated at least as high: one step of a
\* stable descending sort
RECURSIVE InsertByRating(_, _)
InsertByRating(x, s) ==
    IF s = <<>> THEN <<x>>
    ELSE IF Head(s).rating >= x.rating
         THEN <<Head(s)>> \o InsertByRating(x, Tail(s))
    ELSE <<x>> \o s

RECURSIVE SortInto(_, _)
SortInto(s, acc) ==
    IF s = <<>> THEN acc ELSE SortInto(Tail(s), InsertByRating(Head(s), acc))

\* a plausible slip: the comparator a.rating - b.rating
RECURSIVE SortAscending(_)
SortAscending(s) ==
    IF s = <<>> THEN <<>>
    ELSE LET lo == CHOOSE i \in 1..Len(s) :
                       \A j \in 1..Len(s) : s[i].rating <= s[j].rating
         IN  <<s[lo]>> \o SortAscending(SubSeq(s, 1, lo - 1) \o SubSeq(s, lo + 1, Len(s)))

\* arr.sort((a, b) => b.rating - a.rating): stable, descending by rating
SortByRatingDesc(s) == SortInto(s, <<>>)

\* arr.slice(start, end) for start, end >= 0
Slice(s, start, end) == SubSeq(s, start + 1, Min(end, Len(s)))

\* arr.find(m => m.id === id): the first match, or <<>> for undefined
Find(s, id) ==
    LET hits == SelectSeq(s, LAMBDA m : m.id = id)
    IN  IF hits = <<>> THEN <<>> ELSE <<Head(hits)>>

\* whether the lower-cased text contains the lower-cased term, for every
\* term a request may carry and every text a movie may hold
ContainsLower ==
    [t \in SearchParams \ {Undefined} |->
        [s \in DOMAIN Chars |->
            Includes(ToLowerCase(Chars[s]), ToLowerCase(Chars[t]))]]

\* title/description search of the in-memory path, lines 260-266
SeedMatches(m, term) ==
    ContainsLower[term][m.title] \/ ContainsLower[term][m.description]

(***************************************************************************)
(* The movies table as MySQL answers the handlers' statements.             *)
(***************************************************************************)
\* text LIKE '%term%' under the default case-insensitive collation
Like(text, term) == text # Null /\ ContainsLower[term][text]

\* ORDER BY rating DESC
OrderByRatingDesc(rs) == SortInto(rs, <<>>)

\* LIMIT n OFFSET k
LimitOffset(rs, n, k) == SubSeq(rs, k + 1, Min(k + n, Len(rs)))

\* SELECT * FROM movies ORDER BY rating DESC                      (line 228)
SelectAll(rs) == OrderByRatingDesc(rs)

\* SELECT * FROM movies [WHERE genre = ? AND (title LIKE ? OR description
\* LIKE ?)] ORDER BY rating DESC LIMIT ? OFFSET ?              (lines 223-248)
SelectFiltered(rs, genre, search, n, k) ==
    LET byGenre == IF Truthy(genre) /\ genre # "all"
                   THEN SelectSeq(rs, LAMBDA m : m.genre = genre) ELSE rs
        bySearch == IF Truthy(search)
                    THEN SelectSeq(byGenre, LAMBDA m :
                             Like(m.title, search) \/ Like(m.description, search))
                    ELSE byGenre
    IN  LimitOffset(OrderByRatingDesc(bySearch), n, k)

\* SELECT * FROM movies WHERE id = ?                         (lines 291, 373)
SelectById(rs, id) == SelectSeq(rs, LAMBDA m : m.id = id)

\* SELECT * FROM movies ORDER BY rating DESC LIMIT ?             (line 347)
SelectTop(rs, n) == LimitOffset(OrderByRatingDesc(rs), n, 0)

\* SELECT * FROM movies WHERE genre = ? AND id != ? ORDER BY rating DESC
\* LIMIT ?                                                       (line 383)
SelectSameGenre(rs, genre, id, n) ==
    LimitOffset(OrderByRatingDesc(
        SelectSeq(rs, LAMBDA m : m.genre = genre /\ m.id # id)), n, 0)

\* a comparison turned around: the strings in descending order
RECURSIVE SortedStringsDescending(_)
SortedStringsDescending(S) ==
    IF S = {} THEN <<>>
    ELSE LET hi == CHOOSE s \in S : \A t \in S \ {s} : StrLess(t, s)
         IN  <<hi>> \o SortedStringsDescending(S \ {hi})

\* a sequence of strings, ascending, without duplicates
RECURSIVE SortedStrings(_)
SortedStrings(S) ==
    IF S = {} THEN <<>>
    ELSE LET lo == CHOOSE s \in S : \A t \in S \ {s} : StrLess(s, t)
         IN  <<lo>> \o SortedStrings(S \ {lo})

\* SELECT DISTINCT genre FROM movies ORDER BY genre              (line 419)
SelectDistinctGenres(rs) == SortedStrings({rs[i].genre : i \in 1..Len(rs)})

\* a statement that replaces the table's content by the new row
ReplaceRows(rs, title, genre, rating, description) ==
    <<[id |-> Len(rs) + 1, title |-> title, genre |-> genre,
       rating |-> rating, description |-> description]>>

\* INSERT INTO movies (...) VALUES (...): the id is AUTO_INCREMENT
InsertRow(rs, title, genre, rating, description) ==
    Append(rs, [id |-> Len(rs) + 1, title |-> title, genre |-> genre,
                rating |-> rating, description |-> description])

(***************************************************************************)
(* connectToDatabase (lines 50-59) and executeQuery (lines 176-190).       *)
(***************************************************************************)
\* the handle after executeQuery's `if (!connection) connection = await
\* connectToDatabase()` with the server reachable or not
HandleAfter(conn, up) ==
    IF conn # "none" THEN conn ELSE IF up THEN "open" ELSE "none"

\* whether executeQuery returns rows (TRUE) or null (FALSE): it needs a
\* handle, a reachable server and the table
QueryAnswers(conn, up) ==
    HandleAfter(conn, up) # "none" /\ up /\ tableExists

(***************************************************************************)
(* The handlers.  Each is an operator from the request and the current     *)
(* state to the response and the state it leaves: [resp, conn, up, rows,   *)
(* movies].  `up2` is whether the server is still reachable when a second  *)
(* statement is issued after the first one was answered.  resp.q lists,    *)
(* per executeQuery call, whether it returned rows (TRUE) or null (FALSE); *)
(* resp.source is the list the body was taken from.                        *)
(***************************************************************************)
DefaultListLimit == 20
DefaultTrendingLimit == 6
DefaultRecommendationLimit == 4

Response(op, args, status, body, meta, source, q) ==
    [op |-> op, args |-> args, status |-> status, body |-> body,
     meta |-> meta, source |-> source, q |-> q]

NoMeta == [none |-> TRUE]

\* GET /api/movies, lines 218-283
ListHandler(genre, search, limit, offset, up2) ==
    LET lim == IF limit = UndefinedNum THEN DefaultListLimit ELSE limit
        off == IF offset = UndefinedNum THEN 0 ELSE offset
        ok1 == QueryAnswers(connection, storeUp)
        dbMovies == SelectAll(rows)
        storePath == ok1 /\ dbMovies # <<>>
        ok2 == storePath /\ up2
        byGenre == IF Truthy(genre) /\ genre # "all"
                   THEN SelectSeq(movies, LAMBDA m : m.genre = genre)
                   ELSE movies
        bySearch == IF Truthy(search)
                    THEN SelectSeq(byGenre, LAMBDA m : SeedMatches(m, search))
                    ELSE byGenre
        movieList == IF storePath
                     THEN IF ok2
                          THEN SelectFiltered(rows, genre, search, lim, off)
                          ELSE dbMovies
                     ELSE Slice(bySearch, off, off + lim)
        page == IF lim = 0 THEN NaN ELSE (off \div lim) + 1
    IN  [resp |-> Response("List",
                     [genre |-> genre, search |-> search, limit |-> lim,
                      offset |-> off],
                     200, movieList,
                     [total |-> Len(movieList), page |-> page, limit |-> lim],
                     IF storePath THEN "store" ELSE "seed",
                     IF storePath THEN <<ok1, ok2>> ELSE <<ok1>>),
         conn |-> HandleAfter(connection, storeUp),
         up |-> IF storePath THEN up2 ELSE storeUp,
         rows |-> rows,
         movies |-> movies]

\* a fallback that consults the sample list only when the query failed, so
\* that a miss of a reachable store is a 404
SeedLookupOnFailureOnly(ok1, id) == IF ok1 THEN <<>> ELSE Find(movies, id)

\* lines 296-297: reached whenever the query gave no row, failed or not
SeedLookup(ok1, id) == Find(movies, id)

\* GET /api/movies/:id, lines 286-306
GetByIdHandler(id) ==
    LET ok1 == QueryAnswers(connection, storeUp)
        dbMovie == SelectById(rows, id)
        movie == SeedLookup(ok1, id)
        hit == ok1 /\ dbMovie # <<>>
    IN  [resp |-> Response("GetById", [id |-> id],
                     IF hit \/ movie # <<>> THEN 200 ELSE 404,
                     IF hit THEN <<Head(dbMovie)>> ELSE movie,
                     NoMeta,
                     IF hit THEN "store" ELSE IF movie # <<>> THEN "seed" ELSE "none",
                     <<ok1>>),
         conn |-> HandleAfter(connection, storeUp),
         up |-> storeUp,
         rows |-> rows,
         movies |-> movies]

\* a validation that lets an empty genre through
RequiredFieldsTitleOnly(title, genre) == Truthy(title)

\* lines 313-316: `!title || !genre` rejects
RequiredFieldsPresent(title, genre) == Truthy(title) /\ Truthy(genre)

\* a write path that reports success whatever executeQuery returned
InsertStatusAlwaysCreated(result) == 201

\* lines 328-335: 201 on a result, 500 on null
InsertStatus(result) == IF result THEN 201 ELSE 500

\* POST /api/movies, lines 309-339
CreateHandler(title, genre, rating) ==
    LET valid == RequiredFieldsPresent(title, genre)
        ok1 == valid /\ QueryAnswers(connection, storeUp)
        stored == IF TruthyNum(rating) THEN rating ELSE NullNum
        status == IF ~valid THEN 400 ELSE InsertStatus(ok1)
    IN  [resp |-> Response("Create",
                     [title |-> title, genre |-> genre, rating |-> rating],
                     status, <<>>,
                     [id |-> IF status = 201 THEN Len(rows) + 1 ELSE 0],
                     "none",
                     IF valid THEN <<ok1>> ELSE <<>>),
         conn |-> IF valid THEN HandleAfter(connection, storeUp) ELSE connection,
         up |-> storeUp,
         rows |-> IF ok1 THEN InsertRow(rows, title, genre, stored, Null) ELSE rows,
         movies |-> movies]

\* GET /api/movies/trending, lines 342-364
TrendingHandler(limit) ==
    LET lim == IF limit = UndefinedNum THEN DefaultTrendingLimit ELSE limit
        ok1 == QueryAnswers(connection, storeUp)
        dbMovies == SelectTop(rows, lim)
        hit == ok1 /\ dbMovies # <<>>
        sorted == SortByRatingDesc(movies)
    IN  [resp |-> Response("Trending", [limit |-> lim], 200,
                     IF hit THEN dbMovies ELSE Slice(sorted, 0, lim),
                     NoMeta,
                     IF hit THEN "store" ELSE "seed",
                     <<ok1>>),
         conn |-> HandleAfter(connection, storeUp),
         up |-> storeUp,
         rows |-> rows,
         movies |-> IF hit THEN movies ELSE sorted]

\* GET /api/recommendations/:movieId, lines 367-414
RecommendationsHandler(movieId, limit, up2) ==
    LET lim == IF limit = UndefinedNum THEN DefaultRecommendationLimit ELSE limit
        ok1 == QueryAnswers(connection, storeUp)
        baseMovie == SelectById(rows, movieId)
        found == ok1 /\ baseMovie # <<>>
        ok2 == found /\ up2
        inMemoryMovie == Find(movies, movieId)
        inMemoryRecs ==
            Slice(SortByRatingDesc(SelectSeq(movies, LAMBDA m :
                      m.genre = Head(inMemoryMovie).genre /\ m.id # movieId)),
                  0, lim)
        args == [movieId |-> movieId, limit |-> lim]
        resp ==
            IF ~found
            THEN Response("RecommendationsFor", args, 404, <<>>, NoMeta, "none",
                          <<ok1>>)
            ELSE IF ok2
            THEN Response("RecommendationsFor", args, 200,
                          SelectSameGenre(rows, Head(baseMovie).genre, movieId, lim),
                          [basedOn |-> Head(baseMovie).title,
                           genre |-> Head(baseMovie).genre],
                          "store", <<ok1, ok2>>)
            ELSE IF inMemoryMovie = <<>>
            THEN Response("RecommendationsFor", args, 404, <<>>, NoMeta, "none",
                          <<ok1, ok2>>)
            ELSE Response("RecommendationsFor", args, 200, inMemoryRecs,
                          [basedOn |-> Head(inMemoryMovie).title,
                           genre |-> Head(inMemoryMovie).genre],
                          "seed", <<ok1, ok2>>)
    IN  [resp |-> resp,
         conn |-> HandleAfter(connection, storeUp),
         up |-> IF found THEN up2 ELSE storeUp,
         rows |-> rows,
         movies |-> movies]

\* GET /api/genres, lines 417-431
GenresHandler ==
    LET ok1 == QueryAnswers(connection, storeUp)
    IN  [resp |-> Response("DistinctGenres", NoMeta, 200,
                     IF ok1 THEN SelectDistinctGenres(rows)
                     ELSE SortedStrings({movies[i].genre : i \in 1..Len(movies)}),
                     NoMeta,
                     IF ok1 THEN "store" ELSE "seed",
                     <<ok1>>),
         conn |-> HandleAfter(connection, storeUp),
         up |-> storeUp,
         rows |-> rows,
         movies |-> movies]

\* GET /health, lines 195-202
HealthHandler ==
    [resp |-> Response("Health", NoMeta, 200, <<>>,
                 [database |-> IF connection # "none" THEN "Connected"
                               ELSE "Disconnected"],
                 "none", <<>>),
     conn |-> connection,
     up |-> storeUp,
     rows |-> rows,
     movies |-> movies]

(***************************************************************************)
(* The state after the module is loaded: the handle is undefined, the      *)
(* sample list is as written, the database holds no movies table yet and   *)
(* the listen callback has not run initDatabase.                           *)
(***************************************************************************)
NoRequest == Response("none", NoMeta, 0, <<>>, NoMeta, "none", <<>>)

\* initDatabase before the listen callback calls it, in the run-th process
InitNotStarted(run) ==
    [pc |-> "notStarted", next |-> 1, ok |-> TRUE, startedOn |-> "none", run |-> run]

\* a request slot with no request in it
IdleTask == [pc |-> "idle", op |-> "none"]

Init ==
    /\ movies = SeedMovies
    /\ connection = "none"
    /\ storeUp \in BOOLEAN
    /\ tableExists = FALSE
    /\ rows = <<>>
    /\ initDone = FALSE
    /\ response = NoRequest
    /\ init = InitNotStarted(1)
    /\ tasks = [i \in 1..MaxTasks |-> IdleTask]
    /\ sessions = 0

\* a request is taken and its handler runs to the end: the state it leaves
\* and the response it hands to Express
Served(r) ==
    /\ response = NoRequest
    /\ movies' = r.movies
    /\ connection' = r.conn
    /\ storeUp' = r.up
    /\ rows' = r.rows
    /\ response' = r.resp
    /\ UNCHANGED <<tableExists, initDone, awaits>>

\* rows added by POST /api/movies so far
CreatedRows ==
    Cardinality({i \in 1..Len(rows) :
        \A j \in 1..Len(SeedMovies) : rows[i].title # SeedMovies[j].title})

(***************************************************************************)
(* The environment: the MySQL server becomes unreachable, or reachable.    *)
(* A change while a finished response is being sent is the same change     *)
(* right after it, so these steps are taken between requests; a change in  *)
(* the middle of a handler is the handler's `up2`.                         *)
(***************************************************************************)
StoreGoesDown ==
    /\ response = NoRequest
    /\ storeUp
    /\ storeUp' = FALSE
    /\ UNCHANGED <<movies, connection, tableExists, rows, initDone, response, awaits>>

StoreComesUp ==
    /\ response = NoRequest
    /\ ~storeUp
    /\ storeUp' = TRUE
    /\ UNCHANGED <<movies, connection, tableExists, rows, initDone, response, awaits>>

(***************************************************************************)
(* initDatabase, lines 132-173, run by the listen callback (451-455).      *)
(* `done` is the number of statements the server answered before it became *)
(* unreachable: CREATE TABLE, the row count, then one INSERT per sample      *)
(* movie, read from `movies` in its current order.                         *)
(***************************************************************************)
InitStatements == 2 + Len(SeedMovies)

InitDatabase ==
    /\ ~initDone
    /\ initDone' = TRUE
    /\ \E done \in 0..InitStatements :
        LET seeding == rows = <<>>
            needed == IF seeding THEN InitStatements ELSE 2
            inserted == IF done > 2 THEN done - 2 ELSE 0
            seeded == [i \in 1..inserted |->
                          [id |-> i, title |-> movies[i].title,
                           genre |-> movies[i].genre, rating |-> movies[i].rating,
                           description |-> movies[i].description]]
        IN  /\ storeUp => done <= needed
            /\ ~storeUp => done = 0
            /\ connection' = IF storeUp THEN "open" ELSE connection
            /\ tableExists' = (tableExists \/ (storeUp /\ done >= 1))
            /\ rows' = IF storeUp /\ seeding THEN seeded ELSE rows
            /\ storeUp' = (storeUp /\ done = needed)
            /\ UNCHANGED <<movies, response, awaits>>

(***************************************************************************)
(* The resolver operations, each the whole handler.                        *)
(***************************************************************************)
List ==
    \E genre \in GenreParams, search \in SearchParams, limit \in LimitParams,
       offset \in OffsetParams, up2 \in BOOLEAN :
        Served(ListHandler(genre, search, limit, offset, up2))

GetById ==
    \E id \in IdParams : Served(GetByIdHandler(id))

Create ==
    \E title \in TitleParams, genre \in NewGenreParams, rating \in RatingParams :
        /\ CreatedRows < MaxCreated
        /\ Served(CreateHandler(title, genre, rating))

Trending ==
    \E limit \in LimitParams : Served(TrendingHandler(limit))

RecommendationsFor ==
    \E movieId \in IdParams, limit \in LimitParams, up2 \in BOOLEAN :
        Served(RecommendationsHandler(movieId, limit, up2))

DistinctGenres == Served(GenresHandler)

Health == Served(HealthHandler)

\* res.json / res.status(...).json: the response leaves the process and the
\* request is over
Respond ==
    /\ response # NoRequest
    /\ response' = NoRequest
    /\ UNCHANGED <<movies, connection, storeUp, tableExists, rows, initDone, awaits>>

Next ==
    \/ StoreGoesDown
    \/ StoreComesUp
    \/ InitDatabase
    \/ List
    \/ GetById
    \/ Create
    \/ Trending
    \/ RecommendationsFor
    \/ DistinctGenres
    \/ Health
    \/ Respond

Spec == Init /\ [][Next]_vars

(***************************************************************************)
(* The HTTP surface: Express tries the routes in the order they were       *)
(* registered and runs the first whose method and path pattern match; no   *)
(* handler calls next().                                                   *)
(***************************************************************************)
Route(method, pattern, handler) ==
    [method |-> method, pattern |-> pattern, handler |-> handler]

\* app.get / app.post / app.delete, in source order
Routes ==
    << Route("GET", <<"health">>, "Health"),                          \* 195
       Route("POST", <<"api", "upload">>, "Upload"),                  \* 205
       Route("GET", <<"api", "movies">>, "List"),                     \* 218
       Route("GET", <<"api", "movies", ":id">>, "GetById"),           \* 286
       Route("POST", <<"api", "movies">>, "Create"),                  \* 309
       Route("GET", <<"api", "movies", "trending">>, "Trending"),     \* 342
       Route("GET", <<"api", "recommendations", ":movieId">>,
             "RecommendationsFor"),                                   \* 367
       Route("GET", <<"api", "genres">>, "DistinctGenres"),           \* 417
       Route("DELETE", <<"api", "s3", ":key">>, "DeleteObject") >>    \* 434

PathParams == {":id", ":movieId", ":key"}

\* whether a path, split at "/", matches a route's pattern
PathMatches(pattern, path) ==
    /\ Len(pattern) = Len(path)
    /\ \A i \in 1..Len(pattern) : pattern[i] \in PathParams \/ pattern[i] = path[i]

\* the routes a request matches, first registered first
MatchingRoutes(method, path) ==
    SelectSeq(Routes, LAMBDA r : r.method = method /\ PathMatches(r.pattern, path))

\* the handler Express runs: the first match in registration order
MatchRoute(method, path) ==
    LET hits == MatchingRoutes(method, path)
    IN  IF hits = <<>> THEN "NotFound" ELSE Head(hits).handler

\* parseInt of a path segment
DecimalValue ==
    "0" :> 0 @@ "1" :> 1 @@ "2" :> 2 @@ "3" :> 3 @@ "4" :> 4 @@
    "5" :> 5 @@ "6" :> 6 @@ "7" :> 7 @@ "8" :> 8 @@ "9" :> 9

ParseInt(seg) == IF seg \in DOMAIN DecimalValue THEN DecimalValue[seg] ELSE NaN

\* the requests sent
IdSegments == {"1", "3", "7", "trending"}

NoQuery == [genre |-> Undefined, limit |-> UndefinedNum]
NoBody == [title |-> Undefined, genre |-> Undefined, file |-> FALSE]

Request(method, path, query, body) ==
    [method |-> method, path |-> path, query |-> query, body |-> body]

HttpRequests ==
    {Request("GET", <<"health">>, NoQuery, NoBody),
     Request("GET", <<"api", "genres">>, NoQuery, NoBody),
     Request("GET", <<"api", "unknown">>, NoQuery, NoBody),
     Request("DELETE", <<"api", "s3", "poster.jpg">>, NoQuery, NoBody)}
    \cup {Request("GET", <<"api", "movies">>, [genre |-> g, limit |-> l], NoBody) :
            g \in GenreParams, l \in LimitParams}
    \cup {Request("GET", <<"api", "movies", seg>>,
                  [genre |-> Undefined, limit |-> l], NoBody) :
            seg \in IdSegments, l \in LimitParams}
    \cup {Request("GET", <<"api", "recommendations", seg>>,
                  [genre |-> Undefined, limit |-> l], NoBody) :
            seg \in IdSegments, l \in LimitParams}
    \cup {Request("POST", <<"api", "movies">>, NoQuery,
                  [title |-> t, genre |-> g, file |-> FALSE]) :
            t \in TitleParams, g \in NewGenreParams}
    \cup {Request("POST", <<"api", "upload">>, NoQuery,
                  [title |-> Undefined, genre |-> Undefined, file |-> f]) :
            f \in BOOLEAN}

\* a route that touches only the media bucket, or no route at all
Unchanged(op, status) ==
    [resp |-> Response(op, NoMeta, status, <<>>, NoMeta, "none", <<>>),
     conn |-> connection, up |-> storeUp, rows |-> rows, movies |-> movies]

\* the handler of the matched route, run on the request; `ok2` is `up2` for
\* the catalog routes and whether the bucket answered for DELETE /api/s3/:key
Dispatch(req, ok2) ==
    LET handler == MatchRoute(req.method, req.path)
        r == CASE handler = "Health" -> HealthHandler
               [] handler = "Upload" ->                        \* lines 205-215
                    Unchanged("Upload", IF req.body.file THEN 200 ELSE 400)
               [] handler = "List" ->
                    ListHandler(req.query.genre, Undefined, req.query.limit,
                                UndefinedNum, ok2)
               [] handler = "GetById" -> GetByIdHandler(ParseInt(req.path[3]))
               [] handler = "Create" ->
                    CreateHandler(req.body.title, req.body.genre, UndefinedNum)
               [] handler = "Trending" -> TrendingHandler(req.query.limit)
               [] handler = "RecommendationsFor" ->
                    RecommendationsHandler(ParseInt(req.path[3]), req.query.limit,
                                           ok2)
               [] handler = "DistinctGenres" -> GenresHandler
               [] handler = "DeleteObject" ->                  \* lines 434-448
                    Unchanged("DeleteObject", IF ok2 THEN 200 ELSE 500)
               [] OTHER -> Unchanged("NotFound", 404)
    IN  [r EXCEPT !.resp = r.resp @@ [method |-> req.method, path |-> req.path]]

HttpRequest ==
    \E req \in HttpRequests, ok2 \in BOOLEAN :
        /\ MatchRoute(req.method, req.path) = "Create" => CreatedRows < MaxCreated
        /\ Served(Dispatch(req, ok2))

NextHttp ==
    \/ StoreGoesDown
    \/ StoreComesUp
    \/ InitDatabase
    \/ HttpRequest
    \/ Respond

HttpSpec == Init /\ [][NextHttp]_vars

(***************************************************************************)
(* The same program at the grain of its awaits.  The listen callback       *)
(* (lines 451-455) starts initDatabase after the server accepts requests,  *)
(* so request handlers run between the statements of initDatabase and      *)
(* between the connect and the execute of one another's executeQuery.      *)
(* Requests here are POST /api/movies with valid fields and                *)
(* GET /api/genres, each one executeQuery call.                            *)
(***************************************************************************)
TaskOps == {"Create", "DistinctGenres"}

\* createConnection calls that have not resolved yet
PendingConnects(ts, in) ==
    Cardinality({i \in 1..MaxTasks : ts[i].pc = "connecting"})
        + (IF in.pc = "connecting" THEN 1 ELSE 0)

\* POST /api/movies requests whose INSERT has not been answered yet
PendingCreates ==
    Cardinality({i \in 1..MaxTasks : tasks[i].pc # "idle" /\ tasks[i].op = "Create"})

\* whether a table holds the six sample movies, one row each, and no other
ExactlySeedRows(rs) ==
    /\ Len(rs) = Len(SeedMovies)
    /\ \A j \in 1..Len(SeedMovies) :
           \E i \in 1..Len(rs) :
               /\ rs[i].title = SeedMovies[j].title
               /\ rs[i].genre = SeedMovies[j].genre
               /\ rs[i].rating = SeedMovies[j].rating

\* line 454 -> 134: initDatabase calls connectToDatabase, whatever
\* `connection` holds
InitStart ==
    /\ init.pc = "notStarted"
    /\ sessions + PendingConnects(tasks, init) < MaxSessions
    /\ init' = [init EXCEPT !.pc = "connecting",
                            !.startedOn = IF rows = <<>> THEN "empty"
                                          ELSE IF ExactlySeedRows(rows) THEN "seeded"
                                          ELSE "other"]
    /\ UNCHANGED <<movies, connection, storeUp, tableExists, rows, initDone,
                   response, tasks, sessions>>

\* lines 52-58, 135-138: createConnection resolves and assigns `connection`,
\* or throws and initDatabase returns
InitConnected ==
    /\ init.pc = "connecting"
    /\ connection' = IF storeUp THEN "open" ELSE connection
    /\ sessions' = IF storeUp THEN sessions + 1 ELSE sessions
    /\ init' = IF storeUp THEN [init EXCEPT !.pc = "createTable"]
               ELSE [init EXCEPT !.pc = "done", !.ok = FALSE]
    /\ initDone' = ~storeUp
    /\ UNCHANGED <<movies, storeUp, tableExists, rows, response, tasks>>

\* lines 141-155: CREATE TABLE IF NOT EXISTS, or the catch at 169-172
InitCreateTable ==
    /\ init.pc = "createTable"
    /\ tableExists' = (tableExists \/ storeUp)
    /\ init' = IF storeUp THEN [init EXCEPT !.pc = "count"]
               ELSE [init EXCEPT !.pc = "done", !.ok = FALSE]
    /\ initDone' = ~storeUp
    /\ UNCHANGED <<movies, connection, storeUp, rows, response, tasks, sessions>>

\* lines 158-159: the row count decides whether the sample movies go in
InitCount ==
    /\ init.pc = "count"
    /\ init' = IF ~storeUp THEN [init EXCEPT !.pc = "done", !.ok = FALSE]
               ELSE IF rows = <<>> THEN [init EXCEPT !.pc = "insert", !.next = 1]
               ELSE [init EXCEPT !.pc = "done"]
    /\ initDone' = (~storeUp \/ rows # <<>>)
    /\ UNCHANGED <<movies, connection, storeUp, tableExists, rows, response,
                   tasks, sessions>>

\* lines 161-166: one INSERT of the loop over `movies`
InitInsert ==
    /\ init.pc = "insert"
    /\ rows' = IF storeUp
               THEN InsertRow(rows, movies[init.next].title, movies[init.next].genre,
                              movies[init.next].rating, movies[init.next].description)
               ELSE rows
    /\ init' = IF ~storeUp THEN [init EXCEPT !.pc = "done", !.ok = FALSE]
               ELSE IF init.next = Len(movies) THEN [init EXCEPT !.pc = "done"]
               ELSE [init EXCEPT !.next = init.next + 1]
    /\ initDone' = (~storeUp \/ init.next = Len(movies))
    /\ UNCHANGED <<movies, connection, storeUp, tableExists, response, tasks,
                   sessions>>

\* lines 176-181: a handler calls executeQuery, which connects when
\* `connection` is empty and goes on to execute when it is not
TaskStart ==
    \E i \in 1..MaxTasks, op \in TaskOps :
        /\ tasks[i].pc = "idle"
        /\ op = "Create" => CreatedRows + PendingCreates < MaxCreated
        /\ connection = "none" =>
               sessions + PendingConnects(tasks, init) < MaxSessions
        /\ tasks' = [tasks EXCEPT ![i] =
                        [pc |-> IF connection = "none" THEN "connecting"
                                ELSE "executing",
                         op |-> op]]
        /\ UNCHANGED <<movies, connection, storeUp, tableExists, rows, initDone,
                       response, init, sessions>>

\* what the handler answers once executeQuery returned rows (ok) or null
TaskResponse(op, ok) ==
    IF op = "Create"
    THEN Response("Create",
             [title |-> "Galaxy Quest", genre |-> "horror", rating |-> UndefinedNum],
             InsertStatus(ok), <<>>,
             [id |-> IF ok THEN Len(rows) + 1 ELSE 0], "none", <<ok>>)
    ELSE Response("DistinctGenres", NoMeta, 200,
             IF ok THEN SelectDistinctGenres(rows)
             ELSE SortedStrings({movies[k].genre : k \in 1..Len(movies)}),
             NoMeta, IF ok THEN "store" ELSE "seed", <<ok>>)

\* line 179: `connection = await connectToDatabase()` resolves: the handle,
\* or null, is assigned whatever `connection` holds by now; with null
\* executeQuery returns null and the handler answers
TaskConnected ==
    \E i \in 1..MaxTasks :
        /\ tasks[i].pc = "connecting"
        /\ ~storeUp => response = NoRequest
        /\ connection' = IF storeUp THEN "open" ELSE "none"
        /\ sessions' = IF storeUp THEN sessions + 1 ELSE sessions
        /\ tasks' = [tasks EXCEPT ![i] =
                        IF storeUp THEN [tasks[i] EXCEPT !.pc = "executing"]
                        ELSE IdleTask]
        /\ response' = IF storeUp THEN response
                       ELSE TaskResponse(tasks[i].op, FALSE)
        /\ UNCHANGED <<movies, storeUp, tableExists, rows, initDone, init>>

\* lines 182-188: the statement is answered, or throws; the handler answers
TaskExecuted ==
    \E i \in 1..MaxTasks :
        LET ok == storeUp /\ tableExists
        IN  /\ tasks[i].pc = "executing"
            /\ response = NoRequest
            /\ rows' = IF ok /\ tasks[i].op = "Create"
                       THEN InsertRow(rows, "Galaxy Quest", "horror", NullNum, Null)
                       ELSE rows
            /\ response' = TaskResponse(tasks[i].op, ok)
            /\ tasks' = [tasks EXCEPT ![i] = IdleTask]
            /\ UNCHANGED <<movies, connection, storeUp, tableExists, initDone,
                           init, sessions>>

\* the process is stopped and started again: the module is loaded anew, the
\* database keeps its table
Restart ==
    /\ init.run < MaxRuns
    /\ movies' = SeedMovies
    /\ connection' = "none"
    /\ initDone' = FALSE
    /\ response' = NoRequest
    /\ init' = InitNotStarted(init.run + 1)
    /\ tasks' = [i \in 1..MaxTasks |-> IdleTask]
    /\ sessions' = 0
    /\ UNCHANGED <<storeUp, tableExists, rows>>

NextConcurrent ==
    \/ StoreGoesDown
    \/ StoreComesUp
    \/ InitStart
    \/ InitConnected
    \/ InitCreateTable
    \/ InitCount
    \/ InitInsert
    \/ TaskStart
    \/ TaskConnected
    \/ TaskExecuted
    \/ Respond
    \/ Restart

ConcurrentSpec == Init /\ [][NextConcurrent]_vars

(***************************************************************************)
(* Properties.                                                             *)
(***************************************************************************)
\* a sequence of movies in descending order of rating (ties allowed)
DescendingByRating(body) ==
    \A i \in 1..(Len(body) - 1) : body[i].rating >= body[i + 1].rating

\* a sequence of movies in strictly descending order of rating
StrictlyDescendingByRating(body) ==
    \A i \in 1..(Len(body) - 1) : body[i].rating > body[i + 1].rating

IsSeedId(id) == \E i \in 1..Len(SeedMovies) : SeedMovies[i].id = id

SeedById(id) == SeedMovies[CHOOSE i \in 1..Len(SeedMovies) : SeedMovies[i].id = id]

\* C1: every List response is ordered by descending rating, whether it was
\* served from the catalog table or from the sample list.
\* Fails: the in-memory path filters and slices `movies` without sorting it.
C1_ListOrderedByRating ==
    response.op = "List" => DescendingByRating(response.body)

SeedRecommendations(id, limit) ==
    LET others == SelectSeq(SeedMovies, LAMBDA m :
                      m.genre = SeedById(id).genre /\ m.id # id)
    IN  SubSeq(SortInto(others, <<>>), 1, Min(limit, Len(others)))

\* C3: with the store unavailable, RecommendationsFor a sample id succeeds
\* with the same-genre sample movies, basedOn and genre of the base movie.
\* Fails: a failed base-movie query returns 404 before the in-memory path.
C3_RecommendationsFromSeedWhenStoreDown ==
    (/\ response.op = "RecommendationsFor"
     /\ response.q[1] = FALSE
     /\ IsSeedId(response.args.movieId))
    => /\ response.status = 200
       /\ response.body = SeedRecommendations(response.args.movieId,
                                              response.args.limit)
       /\ response.meta = [basedOn |-> SeedById(response.args.movieId).title,
                           genre |-> SeedById(response.args.movieId).genre]

\* C4: GET /api/movies/trending is answered by the Trending handler with a
\* sequence of movies.
\* Fails: /api/movies/:id is registered first and takes the request.
C4_TrendingPathRunsTrending ==
    (/\ response # NoRequest
     /\ response.method = "GET"
     /\ response.path = <<"api", "movies", "trending">>)
    => response.op = "Trending" /\ response.status = 200

\* C5: the sample list is never changed: the same six movies in the order
\* 1..6 after any sequence of operations.
\* Fails: the in-memory path of Trending sorts `movies` in place.
C5_SeedSetImmutable == movies = SeedMovies

\* C6: a List response holds only movies of the requested genre and at most
\* limit movies, in every execution.
\* Fails: when the second statement fails the unfiltered first result is sent.
C6_ListRespectsFilterAndLimit ==
    response.op = "List" =>
        /\ (Truthy(response.args.genre) /\ response.args.genre # "all"
              => \A i \in 1..Len(response.body) :
                     response.body[i].genre = response.args.genre)
        /\ Len(response.body) <= response.args.limit

\* the movies of the answering source that pass the request's filter
MatchingCount(source, genre, search) ==
    Cardinality({i \in 1..Len(source) :
        /\ (Truthy(genre) /\ genre # "all" => source[i].genre = genre)
        /\ (Truthy(search) =>
               Like(source[i].title, search) \/ Like(source[i].description, search))})

\* C7: List pages the filtered movies: a success holding exactly the movies
\* left after skipping offset of the matching ones, at most limit, and so
\* none at all for an offset past the matches, in both paths.
\* Fails with C6: the unfiltered, unpaged first result is sent when the
\* second statement fails.
C7_ListPaginatesAfterFiltering ==
    response.op = "List" =>
        LET n == MatchingCount(IF response.source = "store" THEN rows ELSE SeedMovies,
                               response.args.genre, response.args.search)
            left == IF n > response.args.offset THEN n - response.args.offset ELSE 0
        IN  /\ response.status = 200
            /\ Len(response.body) = Min(response.args.limit, left)

\* C8: Trending served from the sample list is the limit highest-rated
\* sample movies in strictly descending order of rating; for limit 3 it is
\* Quantum Nexus, The Last Symphony, Digital Phantom.
C8_TrendingFromSeedIsTopRated ==
    (response.op = "Trending" /\ response.source = "seed") =>
        LET body == response.body
            in == {body[i].id : i \in 1..Len(body)}
        IN  /\ Len(body) = Min(response.args.limit, Len(SeedMovies))
            /\ StrictlyDescendingByRating(body)
            /\ \A i \in 1..Len(body) : body[i] = SeedById(body[i].id)
            /\ \A i \in 1..Len(body), j \in 1..Len(SeedMovies) :
                   SeedMovies[j].id \notin in => SeedMovies[j].rating < body[i].rating
            /\ response.args.limit = 3 =>
                   [i \in 1..3 |-> body[i].title]
                       = <<"Quantum Nexus", "The Last Symphony", "Digital Phantom">>

\* C8 witness: Trending with limit 3 answered from the sample list.
C8_Witness ==
    /\ response.op = "Trending"
    /\ response.source = "seed"
    /\ response.args.limit = 3
    /\ Len(response.body) = 3

\* C9: Create with an empty or missing title or genre is a 400 that issues
\* no query and leaves the catalog rows (and the handle) as they were.
C9_InvalidCreateRejected ==
    [][(/\ response = NoRequest
        /\ response'.op = "Create"
        /\ ~(Truthy(response'.args.title) /\ Truthy(response'.args.genre)))
       => /\ response'.status = 400
          /\ response'.q = <<>>
          /\ rows' = rows
          /\ connection' = connection]_vars

\* C9 witness: a Create with a title and an empty genre was rejected.
C9_Witness ==
    /\ response.op = "Create"
    /\ Truthy(response.args.title)
    /\ response.args.genre = ""
    /\ response.status = 400

\* C10: Create with a valid title and genre while the store is unreachable
\* is a 500: never a success, one attempt only, no row added then or when
\* the request ends, and the sample list untouched.
C10_CreateFailsWhenStoreDown ==
    [][/\ (/\ response = NoRequest
           /\ response'.op = "Create"
           /\ Truthy(response'.args.title) /\ Truthy(response'.args.genre)
           /\ ~storeUp)
          => /\ response'.status = 500
             /\ response'.q = <<FALSE>>
             /\ rows' = rows
             /\ movies' = movies
       /\ (/\ response.op = "Create"
           /\ response.status = 500
           /\ response' = NoRequest)
          => rows' = rows /\ movies' = movies]_vars

\* C10 witness: a valid Create met an unreachable store and got a 500.
C10_Witness ==
    /\ response.op = "Create"
    /\ Truthy(response.args.title) /\ Truthy(response.args.genre)
    /\ response.q = <<FALSE>>
    /\ ~storeUp
    /\ response.status = 500

\* C11: DistinctGenres returns the genres present in the answering source,
\* each once, in ascending alphabetical order; from the sample list exactly
\* action, comedy, drama, sci-fi, thriller.
C11_DistinctGenresSortedUnique ==
    response.op = "DistinctGenres" =>
        LET body == response.body
            source == IF response.source = "store" THEN rows ELSE SeedMovies
        IN  /\ {body[i] : i \in 1..Len(body)}
                   = {source[i].genre : i \in 1..Len(source)}
            /\ \A i \in 1..(Len(body) - 1) : StrLess(body[i], body[i + 1])
            /\ response.source = "seed" =>
                   body = <<"action", "comedy", "drama", "sci-fi", "thriller">>

\* C11 witness: the genres were answered from the sample list, which holds
\* action twice.
C11_Witness ==
    /\ response.op = "DistinctGenres"
    /\ response.source = "seed"
    /\ Len(response.body) = 5

ReadOperations ==
    {"List", "GetById", "Trending", "RecommendationsFor", "DistinctGenres", "Health"}

\* C12: no catalog row is ever removed or altered: every step keeps the rows
\* it found, a row is added only by a successful Create (one row) or by the
\* seeding step, and every read operation leaves the rows as they were.
C12_RowsOnlyGrow ==
    [][/\ Len(rows) <= Len(rows')
       /\ SubSeq(rows', 1, Len(rows)) = rows
       /\ rows' # rows =>
              \/ /\ response = NoRequest
                 /\ response'.op = "Create"
                 /\ response'.status = 201
                 /\ Len(rows') = Len(rows) + 1
              \/ /\ ~initDone /\ initDone'
                 /\ rows = <<>>
       /\ (response = NoRequest /\ response'.op \in ReadOperations) => rows' = rows]_vars

\* C12 witness: a Create succeeded on a table that already held rows.
C12_Witness ==
    /\ response.op = "Create"
    /\ response.status = 201
    /\ Len(rows) > 1

\* C14: the health check says 'Connected' exactly when the store is reachable
\* through the shared handle at that moment, 'Disconnected' otherwise.
\* Fails: the field only tells whether `connection` was ever assigned; the
\* handle is kept when the server becomes unreachable.
C14_HealthReportsConnectivity ==
    response.op = "Health" =>
        (response.meta.database = "Connected"
            <=> (connection # "none" /\ storeUp))

\* C13: when a run of initDatabase completes without error, having started
\* on an empty table (or on one a completed run had seeded), the table holds
\* exactly the six sample movies, one row each, also with requests served
\* while it ran and when it is run again.
\* Fails: a Create served between CREATE TABLE and the row count makes the
\* count non-zero and the sample movies are never inserted; served between
\* the count and the last INSERT it leaves seven rows.
C13_InitLeavesExactlySeedRows ==
    [][(/\ init.pc # "done"
        /\ init'.pc = "done"
        /\ init'.ok
        /\ init'.startedOn \in {"empty", "seeded"})
       => ExactlySeedRows(rows')]_vars

\* C15: one shared connection: a connection attempt starts only when no
\* handle is held and no attempt is under way, a connection is opened only
\* when no handle is held, and within one process a handle, once held, stays.
\* Fails: executeQuery and initDatabase test or ignore `connection` before
\* the await and assign it after.
C15_SingleSharedConnection ==
    [][/\ PendingConnects(tasks', init') > PendingConnects(tasks, init)
          => connection = "none" /\ PendingConnects(tasks, init) = 0
       /\ sessions' > sessions => connection = "none"
       /\ (connection = "open" /\ init'.run = init.run) => connection' = "open"]_vars

====
